---- MODULE Spec2Model ----
(***************************************************************************)
(* Model of the Answerer of gemini-pdf-qa-bot (src/qa_engine.py, class     *)
(* QAEngine): the citation formatter _format_sources, the question         *)
(* handler ask, the history operations, the LLM helper _llm_predict and    *)
(* summarize_document; of the Indexer of both variants                     *)
(* (src/document_processor.py, class DocumentProcessor): load_pdfs,        *)
(* split_documents, create_vectorstore and process_files over the persist  *)
(* directory; and of the web form layer of pdf-qa-bot (src/ui.py, class    *)
(* ChatInterface) driving the two.                                         *)
(*                                                                         *)
(* Text is modelled at character level.  Values the code inspects          *)
(* character by character (a query, a source path, a passage text) are     *)
(* sequences of one-character strings; they are joined into TLA+ strings   *)
(* (Cat) where the code builds its output with f-strings, so that two      *)
(* keys or two labels are equal exactly when the Python strings are.       *)
(* The paperclip glyph of the citation header and the glyphs that open     *)
(* the messages of the form are left out: the parser accepts ASCII only.   *)
(* What the libraries do (loading a PDF, opening a persist directory,      *)
(* embedding, building the chain) is a choice among working and raising.   *)
(***************************************************************************)
EXTENDS Integers, Sequences, FiniteSets, TLC

VARIABLES
    qa_chain,      \* QAEngine.qa_chain: NoChain, or the index the chain retrieves from
    chat_history,  \* QAEngine.chat_history: sequence of <<query, answer>>
    llm,           \* QAEngine.llm: NoLLM or an LLM object
    ret,           \* outcome of the most recent call on the engine, as its caller sees it
    log,           \* the calls made so far, oldest first, each with its outcome
    arg,           \* argument of the helper call under study (_format_sources, _llm_predict)
    out,           \* what that helper call produced
    doc_processor, \* the DocumentProcessor: which variant it is, and its embeddings field
    chroma_db,     \* the persist directory ./chroma_db: NoDir, or Persisted(chunks)
    build,         \* the most recent process_files / create_vectorstore call: steps and outcome
    ui_vectorstore, \* ChatInterface.vectorstore
    current_files, \* ChatInterface.current_files
    ui             \* the most recent call of a ChatInterface handler, as gradio sees it

\* the state outside the QAEngine
app == <<doc_processor, chroma_db, build, ui_vectorstore, current_files, ui>>

vars == <<qa_chain, chat_history, llm, ret, log, arg, out, app>>

----------------------------------------------------------------------------
(* Bounds of the model *)

MaxDocs == 3        \* longest passage list handed to _format_sources
MaxPage == 1        \* largest zero-based page index in the metadata
MaxCalls == 4       \* calls made on one engine
MaxKeys == 2        \* entries of a mapping returned by the callable LLM

(* Program constants *)

SnippetLen == 150   \* doc.page_content[:150]

----------------------------------------------------------------------------
(* Python strings *)

Min(a, b) == IF a < b THEN a ELSE b

RECURSIVE Cat(_)
\* ''.join(chars)
Cat(chars) == IF chars = <<>> THEN "" ELSE Head(chars) \o Cat(Tail(chars))

\* chars[:n]
Take(chars, n) == SubSeq(chars, 1, Min(n, Len(chars)))

\* chars.replace('\n', ' ')
ReplaceNewlines(chars) == [i \in 1..Len(chars) |-> IF chars[i] = "\n" THEN " " ELSE chars[i]]

IsSpace(c) == c \in {" ", "\t", "\n"}

RECURSIVE LStrip(_)
LStrip(chars) ==
    IF chars # <<>> /\ IsSpace(Head(chars)) THEN LStrip(Tail(chars)) ELSE chars

RECURSIVE RStrip(_)
RStrip(chars) ==
    IF chars # <<>> /\ IsSpace(chars[Len(chars)])
    THEN RStrip(SubSeq(chars, 1, Len(chars) - 1))
    ELSE chars

\* chars.strip()
Strip(chars) == RStrip(LStrip(chars))

RECURSIVE LastSlash(_, _)
\* path.rfind('/') + 1, searching down from position i
LastSlash(path, i) ==
    IF i = 0 THEN 0
    ELSE IF path[i] = "/" THEN i
    ELSE LastSlash(path, i - 1)

\* os.path.basename(path): what follows the last '/'
Basename(path) == SubSeq(path, LastSlash(path, Len(path)) + 1, Len(path))

BoundedSeq(S, n) == UNION {[1..k -> S] : k \in 0..n}

----------------------------------------------------------------------------
(* Retrieved passages: page_content and a metadata dict whose keys may be  *)
(* absent.                                                                 *)

Sources == {<<"a">>, <<"d", "/", "a">>}
Pages == 0..MaxPage
Contents == {<<"x">>, <<"y", "\n", "z">>}

EmptyDict == [k \in {} |-> 0]

Metadata == [source : Sources, page : Pages] \cup [source : Sources] \cup {EmptyDict}

Docs == [page_content : Contents, metadata : Metadata]

UnknownSource == <<"U", "n", "k", "n", "o", "w", "n">>

\* doc.metadata.get('source', 'Unknown')
MetaSource(doc) ==
    IF "source" \in DOMAIN doc.metadata THEN doc.metadata.source ELSE UnknownSource

\* isinstance(doc.metadata.get('page'), int)
HasIntPage(doc) == "page" \in DOMAIN doc.metadata

----------------------------------------------------------------------------
(* QAEngine._format_sources *)

Header == "\n\n**Sources:**\n"

PageLabelNoOffset(doc) ==
    IF HasIntPage(doc) THEN "Page " \o ToString(doc.metadata.page) ELSE "Page N/A"

PageLabel(doc) ==
    IF HasIntPage(doc) THEN "Page " \o ToString(doc.metadata.page + 1) ELSE "Page N/A"

PageKeySourceOnly(doc) == Cat(MetaSource(doc))

PageKey(doc) ==
    IF HasIntPage(doc)
    THEN Cat(MetaSource(doc)) \o "_" \o ToString(doc.metadata.page)
    ELSE Cat(MetaSource(doc)) \o "_N/A"

SeenAddNothing(seen_pages, page_key) == seen_pages

\* seen_pages.add(page_key)
SeenAdd(seen_pages, page_key) == seen_pages \cup {page_key}

Snippet(doc) == Cat(ReplaceNewlines(Take(doc.page_content, SnippetLen)))

\* the line one passage contributes to sources_text
SourceLine(doc) ==
    "\n- **" \o PageLabel(doc) \o "** (" \o Cat(Basename(MetaSource(doc)))
        \o "): _" \o Snippet(doc) \o "..._"

RECURSIVE FormatLoop(_, _, _, _, _)
\* the for loop, from passage i on; kept lists the passages given a line
FormatLoop(docs, i, seen_pages, sources_text, kept) ==
    IF i > Len(docs) THEN [text |-> sources_text, kept |-> kept]
    ELSE IF PageKey(docs[i]) \in seen_pages
         THEN FormatLoop(docs, i + 1, seen_pages, sources_text, kept)
         ELSE FormatLoop(docs, i + 1, SeenAdd(seen_pages, PageKey(docs[i])),
                         sources_text \o SourceLine(docs[i]),
                         Append(kept, [idx |-> i,
                                       label |-> PageLabel(docs[i]),
                                       name |-> Cat(Basename(MetaSource(docs[i]))),
                                       snippet |-> Snippet(docs[i])]))

_format_sources(docs) ==
    IF docs = <<>> THEN [text |-> "", kept |-> <<>>]
    ELSE FormatLoop(docs, 1, {}, Header, <<>>)

----------------------------------------------------------------------------
(* Python values an LLM call can return, and str() of them *)

PyStr(s) == [type |-> "str", s |-> s]
PyInt(n) == [type |-> "int", n |-> n]
\* a dict keeps insertion order: a sequence of items with distinct keys
PyDict(items) == [type |-> "dict", items |-> items]

\* repr(v) of a str or an int
Repr(v) == IF v.type = "str" THEN "'" \o v.s \o "'" ELSE ToString(v.n)

RECURSIVE ReprItems(_)
ReprItems(items) ==
    IF items = <<>> THEN ""
    ELSE "'" \o Head(items).key \o "': " \o Repr(Head(items).val)
         \o (IF Len(items) > 1 THEN ", " ELSE "") \o ReprItems(Tail(items))

\* str(v)
StrOf(v) ==
    CASE v.type = "str" -> v.s
      [] v.type = "int" -> ToString(v.n)
      [] v.type = "dict" -> "{" \o ReprItems(v.items) \o "}"

DictKeys == {"content", "text", "output", "result", "other"}
DictVals == {PyStr("X"), PyStr("Y")}

Dicts ==
    {PyDict(items) : items \in
        {s \in BoundedSeq([key : DictKeys, val : DictVals], MaxKeys) :
            \A i, j \in 1..Len(s) : i # j => s[i].key # s[j].key}}

\* key in response
HasKey(d, key) == \E i \in 1..Len(d.items) : d.items[i].key = key

\* response[key]
DictGet(d, key) == d.items[CHOOSE i \in 1..Len(d.items) : d.items[i].key = key].val

----------------------------------------------------------------------------
(* What the collaborators of one call do: each either raises or returns *)

Raises(type, msg) == [raised |-> TRUE, type |-> type, msg |-> msg]
Returns(value) == [raised |-> FALSE, value |-> value]

\* llm.predict(prompt); an LLM without a predict method raises AttributeError
PredictOutcomes ==
    {Raises("AttributeError", "no attribute 'predict'"), Raises("Exception", "predict down")}
        \cup {Returns(PyStr(s)) : s \in {"Summary from predict", "X"}}

\* llm(prompt)
CallOutcomes ==
    {Raises("TypeError", "object is not callable"), Raises("Exception", "call down")}
        \cup {Returns(PyStr("Summary from __call__")), Returns(PyInt(7))}
        \cup {Returns(d) : d \in Dicts}

----------------------------------------------------------------------------
(* QAEngine._llm_predict *)

NoLLM == "None"
LLMs == {NoLLM, "llm"}

KeyOrderReversed == <<"result", "output", "text", "content">>

\* for key in ("content", "text", "output", "result")
KeyOrder == <<"content", "text", "output", "result">>

RECURSIVE FirstPresent(_, _)
\* the loop over the common keys, from the i-th on, and the last resort after it
FirstPresent(response, i) ==
    IF i > Len(KeyOrder) THEN PyStr(StrOf(response))
    ELSE IF HasKey(response, KeyOrder[i]) THEN DictGet(response, KeyOrder[i])
    ELSE FirstPresent(response, i + 1)

\* predict and call say what llm.predict(prompt) and llm(prompt) do when invoked
_llm_predict(predict, call) ==
    IF llm = NoLLM
    THEN [outcome |-> Raises("RuntimeError",
                             "LLM not configured: set engine.llm to a valid LLM instance"),
          predict_called |-> FALSE, call_called |-> FALSE]
    ELSE IF ~predict.raised
    THEN [outcome |-> Returns(predict.value),
          predict_called |-> TRUE, call_called |-> FALSE]
    ELSE [outcome |->
              IF call.raised THEN call
              ELSE IF call.value.type = "dict" THEN Returns(FirstPresent(call.value, 1))
              ELSE Returns(PyStr(StrOf(call.value))),
          predict_called |-> TRUE, call_called |-> TRUE]

----------------------------------------------------------------------------
(* The engine: setup_chain, ask, clear_history, summarize_document *)

NoChain == "None"
NoIndex == "None"
Indexes == {"vs1", "vs2"}

Queries == {<<>>, <<" ", " ", " ">>, <<" ", "q", "\n">>}
Answers == {"This is the answer", "A2"}
Reasons == {"boom"}

EmptyList == [type |-> "list", items |-> <<>>]

\* the passage lists a chain call returns in the engine's runs
Page1Doc ==
    [page_content |-> <<"x">>, metadata |-> [source |-> <<"d", "/", "a">>, page |-> 1]]
PagelessDoc == [page_content |-> <<"y", "\n", "z">>, metadata |-> [source |-> <<"a">>]]
AskDocLists == {<<>>, <<Page1Doc>>, <<PagelessDoc, Page1Doc, PagelessDoc>>}

\* what self.qa_chain({"query": query}) does: raises, or returns a response dict
ChainOutcomes ==
    {Raises("Exception", m) : m \in Reasons}
        \cup {Returns(r) : r \in [result : Answers, source_documents : AskDocLists]
                                  \cup [result : Answers] \cup {EmptyDict}}

UnboundMsg == "QA chain not initialized. Call setup_chain() first."

\* the dict ask returns for an empty or whitespace-only query
BlankValue ==
    [answer |-> "Please enter a valid question.", sources |-> EmptyList, error |-> TRUE]

\* response.get('result', 'No answer generated')
ResponseAnswer(response) ==
    IF "result" \in DOMAIN response THEN response.result ELSE "No answer generated"

ResponseDocsFirstOnly(response) ==
    IF "source_documents" \in DOMAIN response
    THEN Take(response.source_documents, 1)
    ELSE <<>>

\* response.get('source_documents', [])
ResponseDocs(response) ==
    IF "source_documents" \in DOMAIN response THEN response.source_documents ELSE <<>>

AskErrorValueNoReason(e) ==
    [answer |-> "Error processing question", sources |-> EmptyList, error |-> TRUE]

\* the except clause of ask
AskErrorValue(e) ==
    [answer |-> "Error processing question: " \o e.msg, sources |-> EmptyList, error |-> TRUE]

\* the try block of ask once the chain has answered
AskSuccess(query, response) ==
    [result |-> Returns([answer |-> ResponseAnswer(response),
                         sources |-> PyStr(_format_sources(ResponseDocs(response)).text),
                         error |-> FALSE]),
     chat_history |-> Append(chat_history, <<query, ResponseAnswer(response)>>),
     chain_called |-> TRUE]

\* ask without the blank-query check
AskCallNoBlankCheck(query, chain) ==
    IF qa_chain = NoChain
    THEN [result |-> Raises("ValueError", UnboundMsg),
          chat_history |-> chat_history, chain_called |-> FALSE]
    ELSE IF chain.raised
    THEN [result |-> Returns(AskErrorValue(chain)),
          chat_history |-> chat_history, chain_called |-> TRUE]
    ELSE AskSuccess(query, chain.value)

\* ask with the blank-query check ahead of the chain check
AskCallBlankFirst(query, chain) ==
    IF Strip(query) = <<>>
    THEN [result |-> Returns(BlankValue),
          chat_history |-> chat_history, chain_called |-> FALSE]
    ELSE IF qa_chain = NoChain
    THEN [result |-> Raises("ValueError", UnboundMsg),
          chat_history |-> chat_history, chain_called |-> FALSE]
    ELSE IF chain.raised
    THEN [result |-> Returns(AskErrorValue(chain)),
          chat_history |-> chat_history, chain_called |-> TRUE]
    ELSE AskSuccess(query, chain.value)

\* ask(query) when the chain call does `chain`: the call's result and the history after it
AskCall(query, chain) ==
    IF qa_chain = NoChain
    THEN [result |-> Raises("ValueError", UnboundMsg),
          chat_history |-> chat_history, chain_called |-> FALSE]
    ELSE IF Strip(query) = <<>>
    THEN [result |-> Returns(BlankValue),
          chat_history |-> chat_history, chain_called |-> FALSE]
    ELSE IF chain.raised
    THEN [result |-> Returns(AskErrorValue(chain)),
          chat_history |-> chat_history, chain_called |-> TRUE]
    ELSE AskSuccess(query, chain.value)

\* the except clause of summarize_document
SummaryError(e) == Returns(PyStr("Error generating summary: " \o e.msg))

\* vectorstore.as_retriever(...) on None
NoneRetriever ==
    Raises("AttributeError", "'NoneType' object has no attribute 'as_retriever'")

\* summarize_document with the chain check of ask in front
SummarizeCallChecked(vectorstore, retrieval, predict, call) ==
    IF qa_chain = NoChain
    THEN [result |-> Raises("ValueError", UnboundMsg),
          predict_called |-> FALSE, call_called |-> FALSE]
    ELSE IF vectorstore = NoIndex \/ retrieval.raised
    THEN [result |-> SummaryError(IF vectorstore = NoIndex THEN NoneRetriever ELSE retrieval),
          predict_called |-> FALSE, call_called |-> FALSE]
    ELSE LET r == _llm_predict(predict, call) IN
         [result |-> IF r.outcome.raised THEN SummaryError(r.outcome) ELSE r.outcome,
          predict_called |-> r.predict_called, call_called |-> r.call_called]

\* summarize_document(vectorstore) when retrieval and the LLM behave as given
SummarizeCall(vectorstore, retrieval, predict, call) ==
    IF vectorstore = NoIndex
    THEN [result |-> SummaryError(NoneRetriever),
          predict_called |-> FALSE, call_called |-> FALSE]
    ELSE IF retrieval.raised
    THEN [result |-> SummaryError(retrieval),
          predict_called |-> FALSE, call_called |-> FALSE]
    ELSE LET r == _llm_predict(predict, call) IN
         [result |-> IF r.outcome.raised THEN SummaryError(r.outcome) ELSE r.outcome,
          predict_called |-> r.predict_called, call_called |-> r.call_called]

\* get_chat_history()
get_chat_history == chat_history

\* what the caller of ask saw: a returned dict whose error flag is False
AskSucceeded(result) == ~result.raised /\ ~result.value.error

LogEntry(op, ok, query, answer) == [op |-> op, ok |-> ok, query |-> query, answer |-> answer]

NotCalled == [called |-> FALSE]

----------------------------------------------------------------------------
(* The application around the engine, before anything is uploaded *)

NoDir == [exists |-> FALSE]
Persisted(chunks) == [exists |-> TRUE, chunks |-> chunks]
NoBuild == [op |-> "none"]
NoUi == [n |-> 0, op |-> "none", chat |-> <<>>]

\* the state outside the engine in the runs that study the engine alone
InitAppIdle ==
    /\ doc_processor = [variant |-> "gemini-pdf-qa-bot", embeddings |-> TRUE]
    /\ chroma_db = NoDir
    /\ build = NoBuild
    /\ ui_vectorstore = NoIndex
    /\ current_files = <<>>
    /\ ui = NoUi

----------------------------------------------------------------------------
(* Actions: one call on the engine each *)

\* setup_chain(vectorstore); RetrievalQA.from_chain_type either builds the chain or raises
setup_chain(vectorstore, built) ==
    /\ Len(log) < MaxCalls
    /\ qa_chain' = IF built THEN vectorstore ELSE qa_chain
    /\ ret' = [op |-> "setup_chain", vectorstore |-> vectorstore, raised |-> ~built]
    /\ log' = Append(log, LogEntry("setup_chain", built, <<>>, ""))
    /\ UNCHANGED <<chat_history, llm, arg, out, app>>

ask(query, chain) ==
    /\ Len(log) < MaxCalls
    /\ LET r == AskCall(query, chain) IN
        /\ chat_history' = r.chat_history
        /\ ret' = [op |-> "ask", query |-> query, bound |-> qa_chain # NoChain,
                   chain_called |-> r.chain_called,
                   chain |-> IF r.chain_called THEN chain ELSE NotCalled,
                   result |-> r.result]
        /\ log' = Append(log,
                     IF AskSucceeded(r.result)
                     THEN LogEntry("ask", TRUE, query, r.result.value.answer)
                     ELSE LogEntry("ask", FALSE, <<>>, ""))
    /\ UNCHANGED <<qa_chain, llm, arg, out, app>>

\* clear_history that leaves the list as it is
ClearHistoryKeep ==
    /\ Len(log) < MaxCalls
    /\ chat_history' = chat_history
    /\ ret' = [op |-> "clear_history"]
    /\ log' = Append(log, LogEntry("clear_history", TRUE, <<>>, ""))
    /\ UNCHANGED <<qa_chain, llm, arg, out, app>>

\* clear_history()
clear_history ==
    /\ Len(log) < MaxCalls
    /\ chat_history' = <<>>
    /\ ret' = [op |-> "clear_history"]
    /\ log' = Append(log, LogEntry("clear_history", TRUE, <<>>, ""))
    /\ UNCHANGED <<qa_chain, llm, arg, out, app>>

summarize_document(vectorstore, retrieval, predict, call) ==
    /\ Len(log) < MaxCalls
    /\ LET r == SummarizeCall(vectorstore, retrieval, predict, call) IN
        /\ ret' = [op |-> "summarize", vectorstore |-> vectorstore,
                   bound |-> qa_chain # NoChain,
                   retrieval |-> retrieval, predict |-> predict, call |-> call,
                   predict_called |-> r.predict_called, call_called |-> r.call_called,
                   result |-> r.result]
        /\ log' = Append(log, LogEntry("summarize", TRUE, <<>>, ""))
    /\ UNCHANGED <<qa_chain, chat_history, llm, arg, out, app>>

\* what retrieval and the LLM do during the summaries of the engine's runs;
\* a collaborator the call never reaches is given its first behaviour only
SummaryRetrievals == <<Returns(<<>>), Raises("Exception", "boom")>>
SummaryPredicts == <<Returns(PyStr("Summary from predict")), Raises("Exception", "predict down")>>
SummaryCalls ==
    <<Returns(PyDict(<<[key |-> "output", val |-> PyStr("Summary from __call__")]>>)),
      Raises("Exception", "call down")>>

SummaryEnvs ==
    {e \in [vectorstore : {NoIndex, "vs1"}, retrieval : {SummaryRetrievals[i] : i \in 1..2},
            predict : {SummaryPredicts[i] : i \in 1..2},
            call : {SummaryCalls[i] : i \in 1..2}] :
        /\ e.vectorstore = NoIndex => e.retrieval = SummaryRetrievals[1]
        /\ (e.vectorstore = NoIndex \/ e.retrieval.raised) => e.predict = SummaryPredicts[1]
        /\ ~e.predict.raised => e.call = SummaryCalls[1]}

\* QAEngine.__init__
Init ==
    /\ qa_chain = NoChain
    /\ chat_history = <<>>
    /\ llm \in LLMs
    /\ ret = [op |-> "init"]
    /\ log = <<>>
    /\ arg = <<>>
    /\ out = NotCalled
    /\ InitAppIdle

Next ==
    \/ \E v \in Indexes, built \in BOOLEAN : setup_chain(v, built)
    \/ \E q \in Queries, c \in ChainOutcomes : ask(q, c)
    \/ clear_history
    \/ \E e \in SummaryEnvs : summarize_document(e.vectorstore, e.retrieval, e.predict, e.call)

Spec == Init /\ [][Next]_vars

----------------------------------------------------------------------------
(* _format_sources on its own: every passage list up to MaxDocs *)

InitFmt ==
    /\ qa_chain = NoChain
    /\ chat_history = <<>>
    /\ llm = NoLLM
    /\ ret = [op |-> "init"]
    /\ log = <<>>
    /\ arg \in BoundedSeq(Docs, MaxDocs)
    /\ out = NotCalled
    /\ InitAppIdle

FormatSourcesCall ==
    /\ ~out.called
    /\ out' = [called |-> TRUE, text |-> _format_sources(arg).text,
               kept |-> _format_sources(arg).kept]
    /\ UNCHANGED <<qa_chain, chat_history, llm, ret, log, arg, app>>

NextFmt == FormatSourcesCall

SpecFmt == InitFmt /\ [][NextFmt]_vars

----------------------------------------------------------------------------
(* _llm_predict on its own: every LLM behaviour *)

InitLlm ==
    /\ qa_chain = NoChain
    /\ chat_history = <<>>
    /\ llm \in LLMs
    /\ ret = [op |-> "init"]
    /\ log = <<>>
    /\ arg \in [predict : PredictOutcomes, call : CallOutcomes]
    /\ out = NotCalled
    /\ InitAppIdle

LlmPredictCall ==
    /\ ~out.called
    /\ LET r == _llm_predict(arg.predict, arg.call) IN
        out' = [called |-> TRUE, outcome |-> r.outcome,
                predict_called |-> r.predict_called, call_called |-> r.call_called]
    /\ UNCHANGED <<qa_chain, chat_history, llm, ret, log, arg, app>>

NextLlm == LlmPredictCall

SpecLlm == InitLlm /\ [][NextLlm]_vars

----------------------------------------------------------------------------
(* The Indexer: DocumentProcessor of both variants.  A file is what        *)
(* PyPDFLoader makes of it: a list of pages, or an exception.  A page is    *)
(* its source path, its page number and the length of its text.            *)

MaxFiles == 2

ChunkSize == 1000
ChunkOverlap == 200

Paths == {"a.pdf", "b.pdf", "bad.pdf", "blank.pdf"}

PdfPage(file_path, page, len) == [source |-> file_path, page |-> page, len |-> len]

\* PyPDFLoader(file_path).load(): a.pdf has a long and a short page, b.pdf one
\* page, blank.pdf has no page at all and bad.pdf cannot be read
PyPDFLoader(file_path) ==
    CASE file_path = "a.pdf" -> Returns(<<PdfPage("a.pdf", 0, 1800), PdfPage("a.pdf", 1, 400)>>)
      [] file_path = "b.pdf" -> Returns(<<PdfPage("b.pdf", 0, 900)>>)
      [] file_path = "blank.pdf" -> Returns(<<>>)
      [] OTHER -> Raises("Exception", "cannot read " \o file_path)

\* the path lists of a call: every uploaded file has a path of its own
FileLists ==
    {f \in BoundedSeq(Paths, MaxFiles) : \A i, j \in 1..Len(f) : f[i] = f[j] => i = j}

\* the chunk batches of a direct create_vectorstore call
ChunkFiles == {<<"a.pdf">>, <<"b.pdf">>}

\* load_pdfs with a loader that never skips a failing file: the batch is lost
RECURSIVE LoadPdfsAbortOnFailure(_)
LoadPdfsAbortOnFailure(file_paths) ==
    IF file_paths = <<>> THEN <<>>
    ELSE LET loaded == PyPDFLoader(Head(file_paths))
         IN  IF loaded.raised THEN <<>>
             ELSE loaded.value \o LoadPdfsAbortOnFailure(Tail(file_paths))

\* the documents of the files that load, in the order of file_paths; a file
\* whose load raises contributes nothing
RECURSIVE load_pdfs(_)
load_pdfs(file_paths) ==
    IF file_paths = <<>> THEN <<>>
    ELSE LET loaded == PyPDFLoader(Head(file_paths))
         IN  (IF loaded.raised THEN <<>> ELSE loaded.value) \o load_pdfs(Tail(file_paths))

\* the windows of chunk_size characters, each starting chunk_size - chunk_overlap
\* after the one before, that cover a text of len characters
RECURSIVE Windows(_)
Windows(len) ==
    IF len <= ChunkSize THEN 1 ELSE 1 + Windows(len - (ChunkSize - ChunkOverlap))

\* text_splitter.split_documents: every chunk keeps the metadata of its page
RECURSIVE split_documents(_)
split_documents(documents) ==
    IF documents = <<>> THEN <<>>
    ELSE LET d == Head(documents)
         IN  [i \in 1..Windows(d.len) |-> [source |-> d.source, page |-> d.page, part |-> i]]
                 \o split_documents(Tail(documents))

\* the name of a Chroma handle: the chunks of the collection it reads
RECURSIVE IndexName(_)
IndexName(chunks) ==
    IF chunks = <<>> THEN "chroma:"
    ELSE LET c == chunks[Len(chunks)]
         IN  IndexName(SubSeq(chunks, 1, Len(chunks) - 1))
                 \o c.source \o "#" \o ToString(c.page) \o "." \o ToString(c.part) \o ";"

\* Chroma(persist_directory=..., embedding=...) and Chroma.from_documents(...)
\* either work or raise
OpenOutcomes == {"opened", "raises"}
EmbedOutcomes == {"embedded", "raises"}

NoEmbeddingsMsg == "Embeddings provider not configured"

\* Chroma.from_documents(documents=chunks, ...) on a directory already removed
FromDocuments(chunks, embed, open_tried, deleted) ==
    IF embed = "embedded"
    THEN [result |-> Returns(IndexName(chunks)), chroma_db |-> Persisted(chunks),
          open_tried |-> open_tried, reused |-> FALSE, deleted |-> deleted,
          embed_calls |-> <<chunks>>]
    ELSE [result |-> Raises("Exception", "embedding failed"), chroma_db |-> NoDir,
          open_tried |-> open_tried, reused |-> FALSE, deleted |-> deleted,
          embed_calls |-> <<chunks>>]

\* gemini-pdf-qa-bot: an existing directory is always removed
gemini_create_vectorstore(chunks, db, embed) ==
    FromDocuments(chunks, embed, FALSE, db.exists)

\* pdf-qa-bot's create_vectorstore reusing a directory even when recreation is forced
CreateVectorstoreAlwaysReuse(chunks, force_recreate, db, open, embed) ==
    IF ~doc_processor.embeddings
    THEN [result |-> Raises("RuntimeError", NoEmbeddingsMsg), chroma_db |-> db,
          open_tried |-> FALSE, reused |-> FALSE, deleted |-> FALSE, embed_calls |-> <<>>]
    ELSE IF db.exists /\ open = "opened"
    THEN [result |-> Returns(IndexName(db.chunks)), chroma_db |-> db,
          open_tried |-> TRUE, reused |-> TRUE, deleted |-> FALSE, embed_calls |-> <<>>]
    ELSE FromDocuments(chunks, embed, db.exists, db.exists)

\* pdf-qa-bot: an existing directory is opened and returned unless
\* force_recreate; it is removed when forced or when opening it fails
CreateVectorstoreCall(chunks, force_recreate, db, open, embed) ==
    IF ~doc_processor.embeddings
    THEN [result |-> Raises("RuntimeError", NoEmbeddingsMsg), chroma_db |-> db,
          open_tried |-> FALSE, reused |-> FALSE, deleted |-> FALSE, embed_calls |-> <<>>]
    ELSE IF db.exists /\ ~force_recreate /\ open = "opened"
    THEN [result |-> Returns(IndexName(db.chunks)), chroma_db |-> db,
          open_tried |-> TRUE, reused |-> TRUE, deleted |-> FALSE, embed_calls |-> <<>>]
    ELSE FromDocuments(chunks, embed, db.exists /\ ~force_recreate, db.exists)

\* the create_vectorstore of the variant in use; only pdf-qa-bot's takes force_recreate
VariantCreate(chunks, force_recreate, db, open, embed) ==
    IF doc_processor.variant = "pdf-qa-bot"
    THEN CreateVectorstoreCall(chunks, force_recreate, db, open, embed)
    ELSE gemini_create_vectorstore(chunks, db, embed)

NoFilesMsg == "No files provided"
NoDocumentsMsg == "No documents were successfully loaded"

\* what a call that stops before create_vectorstore leaves behind
Stopped(msg, loader_calls, db) ==
    [result |-> Raises("ValueError", msg), loader_calls |-> loader_calls,
     split_calls |-> <<>>, embed_calls |-> <<>>, open_tried |-> FALSE, reused |-> FALSE,
     deleted |-> FALSE, chroma_db |-> db]

\* process_files: load, split, create_vectorstore(chunks, persist_directory)
ProcessFilesCall(file_paths, db, open, embed) ==
    IF file_paths = <<>> THEN Stopped(NoFilesMsg, <<>>, db)
    ELSE LET documents == load_pdfs(file_paths)
             chunks == split_documents(documents)
             made == VariantCreate(chunks, FALSE, db, open, embed)
         IN  IF documents = <<>> THEN Stopped(NoDocumentsMsg, file_paths, db)
             ELSE [result |-> made.result, loader_calls |-> file_paths,
                   split_calls |-> <<documents>>, embed_calls |-> made.embed_calls,
                   open_tried |-> made.open_tried, reused |-> made.reused,
                   deleted |-> made.deleted, chroma_db |-> made.chroma_db]

\* the record of a finished Indexer call
BuildOf(op, file_paths, force_recreate, r) ==
    [op |-> op, file_paths |-> file_paths,
     force_recreate |-> force_recreate, db_before |-> chroma_db,
     result |-> r.result, loader_calls |-> r.loader_calls, split_calls |-> r.split_calls,
     embed_calls |-> r.embed_calls, open_tried |-> r.open_tried, reused |-> r.reused,
     deleted |-> r.deleted]

process_files(file_paths, open, embed) ==
    /\ LET r == ProcessFilesCall(file_paths, chroma_db, open, embed)
       IN  /\ chroma_db' = r.chroma_db
           /\ build' = BuildOf("process_files", file_paths, FALSE, r)
    /\ UNCHANGED <<qa_chain, chat_history, llm, ret, log, arg, out,
                   doc_processor, ui_vectorstore, current_files, ui>>

\* a direct call of create_vectorstore on chunks split before
create_vectorstore(file_paths, force_recreate, open, embed) ==
    /\ force_recreate => doc_processor.variant = "pdf-qa-bot"
    /\ LET chunks == split_documents(load_pdfs(file_paths))
           r == VariantCreate(chunks, force_recreate, chroma_db, open, embed)
       IN  /\ chroma_db' = r.chroma_db
           /\ build' = BuildOf("create_vectorstore", file_paths, force_recreate,
                               [result |-> r.result, loader_calls |-> <<>>,
                                split_calls |-> <<>>, embed_calls |-> r.embed_calls,
                                open_tried |-> r.open_tried, reused |-> r.reused,
                                deleted |-> r.deleted])
    /\ UNCHANGED <<qa_chain, chat_history, llm, ret, log, arg, out,
                   doc_processor, ui_vectorstore, current_files, ui>>

DocumentProcessors ==
    {[variant |-> "gemini-pdf-qa-bot", embeddings |-> TRUE],
     [variant |-> "pdf-qa-bot", embeddings |-> TRUE],
     [variant |-> "pdf-qa-bot", embeddings |-> FALSE]}

InitIdx ==
    /\ qa_chain = NoChain
    /\ chat_history = <<>>
    /\ llm = NoLLM
    /\ ret = NotCalled
    /\ log = <<>>
    /\ arg = <<>>
    /\ out = NotCalled
    /\ doc_processor \in DocumentProcessors
    /\ chroma_db = NoDir
    /\ build = NoBuild
    /\ ui_vectorstore = NoIndex
    /\ current_files = <<>>
    /\ ui = NoUi

NextIdx ==
    \/ \E file_paths \in FileLists, open \in OpenOutcomes, embed \in EmbedOutcomes :
           process_files(file_paths, open, embed)
    \/ \E file_paths \in ChunkFiles, force_recreate \in BOOLEAN,
          open \in OpenOutcomes, embed \in EmbedOutcomes :
           create_vectorstore(file_paths, force_recreate, open, embed)

SpecIdx == InitIdx /\ [][NextIdx]_vars

----------------------------------------------------------------------------
(* The web form layer: ChatInterface over a DocumentProcessor and a        *)
(* QAEngine.  ui.chat is the chatbot list gradio hands to the next call.    *)

MaxUiCalls == 3

\* the uploads of the form: none, a file, another file, an unreadable file
UiUploads == {<<>>, <<"a.pdf">>, <<"b.pdf">>, <<"bad.pdf">>}
UiQueries == {<<" ">>, <<"q">>}
UiChainOutcomes ==
    {Raises("Exception", "boom"),
     Returns([result |-> "This is the answer", source_documents |-> <<Page1Doc>>])}
UiSummaryEnvs == {e \in SummaryEnvs : e.vectorstore # NoIndex}

PleaseUploadMsg == "Please upload at least one PDF file."
PleaseProcessMsg == "Please upload and process PDF files first."
PleaseEnterMsg == "Please enter a question."
ChainBuildError == Raises("Exception", "chain build failed")

\* the string process_upload returns
UploadError(e) == [text |-> "Error processing files: " \o e.msg]
UploadSuccess(files) == [text |-> "Successfully processed", count |-> Len(files), names |-> files]

UiOf(op, result, chat) == [n |-> ui.n + 1, op |-> op, result |-> result, chat |-> chat]

\* the engine's setup_chain as process_upload calls it
UiSetupChain(vectorstore, built) ==
    /\ qa_chain' = IF built THEN vectorstore ELSE qa_chain
    /\ ret' = [op |-> "setup_chain", vectorstore |-> vectorstore, raised |-> ~built]
    /\ log' = Append(log, LogEntry("setup_chain", built, <<>>, ""))

\* process_upload(files): current_files and vectorstore are assigned before
\* setup_chain is called; every exception becomes an error string
process_upload(files, open, embed, built) ==
    /\ ui.n < MaxUiCalls
    /\ IF files = <<>>
       THEN /\ ui' = UiOf("process_upload", Returns([text |-> PleaseUploadMsg]), ui.chat)
            /\ UNCHANGED <<qa_chain, ret, log, chroma_db, build, ui_vectorstore, current_files>>
       ELSE LET r == ProcessFilesCall(files, chroma_db, open, embed)
            IN  /\ current_files' = files
                /\ chroma_db' = r.chroma_db
                /\ build' = BuildOf("process_files", files, FALSE, r)
                /\ IF r.result.raised
                   THEN /\ ui' = UiOf("process_upload", Returns(UploadError(r.result)), ui.chat)
                        /\ UNCHANGED <<qa_chain, ret, log, ui_vectorstore>>
                   ELSE /\ ui_vectorstore' = r.result.value
                        /\ UiSetupChain(r.result.value, built)
                        /\ ui' = UiOf("process_upload",
                                      Returns(IF built THEN UploadSuccess(files)
                                              ELSE UploadError(ChainBuildError)),
                                      ui.chat)
    /\ UNCHANGED <<chat_history, llm, arg, out, doc_processor>>

\* response = result['answer'], followed by result['sources'] unless result['error']
UiResponse(value) ==
    IF value.error THEN value.answer ELSE value.answer \o StrOf(value.sources)

\* answer_question(query, chat_history): ask is called outside any try
answer_question(query, chain) ==
    /\ ui.n < MaxUiCalls
    /\ IF ui_vectorstore = NoIndex
       THEN /\ ui' = UiOf("answer_question",
                          Returns([chat |-> ui.chat, message |-> PleaseProcessMsg]), ui.chat)
            /\ UNCHANGED <<chat_history, ret, log>>
       ELSE IF Strip(query) = <<>>
       THEN /\ ui' = UiOf("answer_question",
                          Returns([chat |-> ui.chat, message |-> PleaseEnterMsg]), ui.chat)
            /\ UNCHANGED <<chat_history, ret, log>>
       ELSE LET r == AskCall(query, chain)
                chat == IF r.result.raised THEN ui.chat
                        ELSE Append(ui.chat, <<query, UiResponse(r.result.value)>>)
            IN  /\ chat_history' = r.chat_history
                /\ ret' = [op |-> "ask", query |-> query, bound |-> qa_chain # NoChain,
                           chain_called |-> r.chain_called,
                           chain |-> IF r.chain_called THEN chain ELSE NotCalled,
                           result |-> r.result]
                /\ log' = Append(log,
                             IF AskSucceeded(r.result)
                             THEN LogEntry("ask", TRUE, query, r.result.value.answer)
                             ELSE LogEntry("ask", FALSE, <<>>, ""))
                /\ ui' = UiOf("answer_question",
                              IF r.result.raised THEN r.result
                              ELSE Returns([chat |-> chat, message |-> ""]),
                              chat)
    /\ UNCHANGED <<qa_chain, llm, arg, out, doc_processor, chroma_db, build,
                   ui_vectorstore, current_files>>

\* generate_summary(): summarize_document(self.vectorstore) inside a try
generate_summary(retrieval, predict, call) ==
    /\ ui.n < MaxUiCalls
    /\ IF ui_vectorstore = NoIndex
       THEN /\ ui' = UiOf("generate_summary", Returns(PleaseProcessMsg), ui.chat)
            /\ UNCHANGED <<ret, log>>
       ELSE LET r == SummarizeCall(ui_vectorstore, retrieval, predict, call)
            IN  /\ ret' = [op |-> "summarize", vectorstore |-> ui_vectorstore,
                           bound |-> qa_chain # NoChain,
                           retrieval |-> retrieval, predict |-> predict, call |-> call,
                           predict_called |-> r.predict_called,
                           call_called |-> r.call_called, result |-> r.result]
                /\ log' = Append(log, LogEntry("summarize", TRUE, <<>>, ""))
                /\ ui' = UiOf("generate_summary",
                              Returns(IF r.result.raised
                                      THEN "Error generating summary: " \o r.result.msg
                                      ELSE "Document Summary: " \o StrOf(r.result.value)),
                              ui.chat)
    /\ UNCHANGED <<qa_chain, chat_history, llm, arg, out, doc_processor, chroma_db, build,
                   ui_vectorstore, current_files>>

\* clear_chat(): clear_history() and an empty chatbot list
clear_chat ==
    /\ ui.n < MaxUiCalls
    /\ chat_history' = <<>>
    /\ ret' = [op |-> "clear_history"]
    /\ log' = Append(log, LogEntry("clear_history", TRUE, <<>>, ""))
    /\ ui' = UiOf("clear_chat",
                  Returns([chat |-> <<>>, message |-> "Chat history cleared"]), <<>>)
    /\ UNCHANGED <<qa_chain, llm, arg, out, doc_processor, chroma_db, build,
                   ui_vectorstore, current_files>>

\* ChatInterface(doc_processor, qa_engine) as app.py builds it
InitUi ==
    /\ qa_chain = NoChain
    /\ chat_history = <<>>
    /\ llm = "llm"
    /\ ret = [op |-> "init"]
    /\ log = <<>>
    /\ arg = <<>>
    /\ out = NotCalled
    /\ doc_processor \in DocumentProcessors
    /\ chroma_db = NoDir
    /\ build = NoBuild
    /\ ui_vectorstore = NoIndex
    /\ current_files = <<>>
    /\ ui = NoUi

NextUi ==
    \/ \E files \in UiUploads, open \in OpenOutcomes, embed \in EmbedOutcomes,
          built \in BOOLEAN :
           process_upload(files, open, embed, built)
    \/ \E query \in UiQueries, chain \in UiChainOutcomes : answer_question(query, chain)
    \/ \E e \in UiSummaryEnvs : generate_summary(e.retrieval, e.predict, e.call)
    \/ clear_chat

SpecUi == InitUi /\ [][NextUi]_vars

----------------------------------------------------------------------------
(* Properties of the citation block (checked under SpecFmt) *)

\* the (source, page) pair of a passage; an absent page is one page value of its own
PairOf(doc) == <<MetaSource(doc), IF HasIntPage(doc) THEN <<doc.metadata.page>> ELSE <<>>>>

\* passage i is the first of the list with its pair
FirstWithPair(docs, i) == \A j \in 1..(i - 1) : PairOf(docs[j]) # PairOf(docs[i])

RECURSIVE RenderEntries(_)
RenderEntries(entries) ==
    IF entries = <<>> THEN ""
    ELSE "\n- **" \o Head(entries).label \o "** (" \o Head(entries).name \o "): _"
         \o Head(entries).snippet \o "..._" \o RenderEntries(Tail(entries))

\* C1: the citation block has exactly one entry per distinct (source, page)
\* pair of the list (pageless passages of one source count as one pair), each
\* entry is built from the first passage with its pair, the entries come in
\* the order of those first passages, and the returned text is the header
\* followed by these entries (the empty string for an empty list).
C1_OneEntryPerPair ==
    out.called =>
        /\ \A k \in 1..Len(out.kept) :
              /\ out.kept[k].idx \in 1..Len(arg)
              /\ FirstWithPair(arg, out.kept[k].idx)
              /\ out.kept[k].name = Cat(Basename(MetaSource(arg[out.kept[k].idx])))
              /\ out.kept[k].snippet =
                     Cat(ReplaceNewlines(Take(arg[out.kept[k].idx].page_content, SnippetLen)))
        /\ \A i \in 1..Len(arg) :
              FirstWithPair(arg, i) => \E k \in 1..Len(out.kept) : out.kept[k].idx = i
        /\ \A k1, k2 \in 1..Len(out.kept) :
              k1 < k2 => out.kept[k1].idx < out.kept[k2].idx
        /\ out.text = IF arg = <<>> THEN "" ELSE Header \o RenderEntries(out.kept)

\* C1 witness: two pageless passages of one source with different texts were
\* formatted, together with a third passage, and only the first of the two
\* got an entry.
C1_Witness ==
    /\ out.called
    /\ Len(arg) = 3
    /\ Len(out.kept) = 2
    /\ \E i, j \in 1..Len(arg) :
          /\ i < j
          /\ ~HasIntPage(arg[i])
          /\ PairOf(arg[i]) = PairOf(arg[j])
          /\ arg[i].page_content # arg[j].page_content
          /\ \E k \in 1..Len(out.kept) : out.kept[k].idx = i

\* C2 as claimed: no two entries of the citation block show the same
\* (basename of source, page) pair.
C2_NoTwoEntriesSameBasenamePage ==
    out.called =>
        \A k1, k2 \in 1..Len(out.kept) :
            k1 # k2 => ~(/\ out.kept[k1].name = out.kept[k2].name
                         /\ out.kept[k1].label = out.kept[k2].label)

\* C2 amended: two entries that show the same (basename, page) pair come from
\* passages whose full source paths differ; no two entries come from the same
\* (full source, page) pair.
C2_SameBasenamePageOnlyAcrossPaths ==
    out.called =>
        \A k1, k2 \in 1..Len(out.kept) :
            (/\ k1 # k2
             /\ out.kept[k1].name = out.kept[k2].name
             /\ out.kept[k1].label = out.kept[k2].label)
                => MetaSource(arg[out.kept[k1].idx]) # MetaSource(arg[out.kept[k2].idx])

\* C2 witness: a block with two entries showing the same basename and page.
C2_Witness ==
    /\ out.called
    /\ \E k1, k2 \in 1..Len(out.kept) :
          /\ k1 # k2
          /\ out.kept[k1].name = out.kept[k2].name
          /\ out.kept[k1].label = out.kept[k2].label

\* C3: an entry whose passage has the integer page N is labelled "Page N+1"
\* (page 0 gives "Page 1"), an entry whose passage has no page is labelled
\* "Page N/A", and no other label occurs.
C3_PageLabels ==
    out.called =>
        \A k \in 1..Len(out.kept) :
            LET doc == arg[out.kept[k].idx] IN
            /\ "page" \in DOMAIN doc.metadata =>
                   out.kept[k].label = "Page " \o ToString(doc.metadata.page + 1)
            /\ ("page" \in DOMAIN doc.metadata /\ doc.metadata.page = 0) =>
                   out.kept[k].label = "Page 1"
            /\ "page" \notin DOMAIN doc.metadata => out.kept[k].label = "Page N/A"
            /\ out.kept[k].label \in
                   {"Page N/A"} \cup {"Page " \o ToString(n + 1) : n \in Pages}

\* C3 witness: a block with an entry for a page-0 passage and an entry for a
\* pageless passage.
C3_Witness ==
    /\ out.called
    /\ \E k1, k2 \in 1..Len(out.kept) :
          /\ "page" \in DOMAIN arg[out.kept[k1].idx].metadata
          /\ arg[out.kept[k1].idx].metadata.page = 0
          /\ out.kept[k1].label = "Page 1"
          /\ "page" \notin DOMAIN arg[out.kept[k2].idx].metadata
          /\ out.kept[k2].label = "Page N/A"

----------------------------------------------------------------------------
(* Properties of the engine (checked under Spec) *)

\* the step is a call of ask
AskStep == Len(log') = Len(log) + 1 /\ ret'.op = "ask"

GuidanceMsg == "Please enter a valid question."

\* C4 as claimed: on a bound Answerer, ask with an empty or whitespace-only
\* question returns the fixed guidance message with isError = false, does not
\* call the chain and does not append to history.
C4_BlankAskIsNotAnError ==
    [][(AskStep /\ qa_chain # NoChain /\ Strip(ret'.query) = <<>>) =>
          /\ ~ret'.result.raised
          /\ ret'.result.value.answer = GuidanceMsg
          /\ ret'.result.value.error = FALSE
          /\ ~ret'.chain_called
          /\ chat_history' = chat_history]_vars

\* C4 amended: on a bound Answerer, ask with an empty or whitespace-only
\* question returns the fixed guidance message with isError = true and an
\* empty source list, does not call the chain and does not append to history.
C4_BlankAskGuidance ==
    [][(AskStep /\ qa_chain # NoChain /\ Strip(ret'.query) = <<>>) =>
          /\ ~ret'.result.raised
          /\ ret'.result.value.answer = GuidanceMsg
          /\ ret'.result.value.error = TRUE
          /\ ret'.result.value.sources = EmptyList
          /\ ~ret'.chain_called
          /\ chat_history' = chat_history]_vars

\* C4 witness: a bound engine with a non-empty history has just answered a
\* whitespace-only question with the guidance message.
C4_Witness ==
    /\ ret.op = "ask"
    /\ ret.bound
    /\ ret.query # <<>>
    /\ Strip(ret.query) = <<>>
    /\ ~ret.result.raised
    /\ ret.result.value.answer = GuidanceMsg
    /\ chat_history # <<>>

\* C5: ask on an engine on which no setup_chain has completed raises the
\* unbound error for every question, blank ones included, and leaves the
\* history unchanged; a setup_chain that completes binds the engine; a bound
\* engine stays bound whatever is called next, and ask on it never raises
\* that error.
C5_UnboundThenBoundForGood ==
    [][/\ (AskStep /\ qa_chain = NoChain) =>
            (ret'.result = Raises("ValueError", UnboundMsg) /\ chat_history' = chat_history)
       /\ (Len(log') = Len(log) + 1 /\ ret'.op = "setup_chain" /\ ~ret'.raised) =>
            qa_chain' # NoChain
       /\ qa_chain # NoChain => qa_chain' # NoChain
       /\ (AskStep /\ qa_chain # NoChain) =>
            ret'.result # Raises("ValueError", UnboundMsg)]_vars

\* C5 witness: ask with a whitespace-only question has just raised the unbound
\* error on an engine whose only setup_chain so far failed.
C5_Witness ==
    /\ ret.op = "ask"
    /\ ~ret.bound
    /\ ret.query # <<>>
    /\ Strip(ret.query) = <<>>
    /\ ret.result = Raises("ValueError", UnboundMsg)
    /\ \E i \in 1..Len(log) : log[i].op = "setup_chain" /\ ~log[i].ok

\* the message of the failure that ends a summarize call with the inputs
\* recorded in r, "" when nothing fails: a missing index, retrieval raising,
\* no LLM configured, or predict and the callable form both raising
SummaryFailure(r) ==
    IF r.vectorstore = NoIndex
    THEN "'NoneType' object has no attribute 'as_retriever'"
    ELSE IF r.retrieval.raised THEN r.retrieval.msg
    ELSE IF llm = NoLLM
    THEN "LLM not configured: set engine.llm to a valid LLM instance"
    ELSE IF r.predict.raised /\ r.call.raised THEN r.call.msg
    ELSE ""

\* C6 as claimed: summarize called before any setup_chain completed fails with
\* the unbound error, like ask.
C6_SummarizeUnboundRaises ==
    (ret.op = "summarize" /\ ~ret.bound) => ret.result = Raises("ValueError", UnboundMsg)

\* C6 amended: summarize called before any setup_chain completed never raises
\* the unbound error: it works on the index it is handed, and returns the
\* LLM's summary when retrieval and the LLM succeed and an
\* "Error generating summary: ..." string otherwise.
C6_SummarizeIgnoresBinding ==
    (ret.op = "summarize" /\ ~ret.bound) =>
        /\ ~ret.result.raised
        /\ SummaryFailure(ret) # "" =>
               ret.result.value = PyStr("Error generating summary: " \o SummaryFailure(ret))
        /\ (SummaryFailure(ret) = "" /\ ~ret.predict.raised) =>
               ret.result.value = ret.predict.value

\* C6 witness: an engine that was never bound has just returned the LLM's
\* summary.
C6_Witness ==
    /\ ret.op = "summarize"
    /\ ~ret.bound
    /\ \A i \in 1..Len(log) : log[i].op # "setup_chain"
    /\ ret.result = Returns(PyStr("Summary from predict"))

\* C7: on a bound engine neither ask nor summarize raises; when the chain call
\* of ask fails, ask returns error = True with the reason in the answer text;
\* when retrieval or the LLM step of summarize fails, summarize returns
\* "Error generating summary: <reason>".
C7_FailuresAreReturned ==
    /\ (ret.op \in {"ask", "summarize"} /\ ret.bound) => ~ret.result.raised
    /\ (ret.op = "ask" /\ ret.bound /\ ret.chain_called /\ ret.chain.raised) =>
          /\ ret.result.value.error = TRUE
          /\ ret.result.value.answer = "Error processing question: " \o ret.chain.msg
    /\ (ret.op = "summarize" /\ ret.bound /\ SummaryFailure(ret) # "") =>
          ret.result.value = PyStr("Error generating summary: " \o SummaryFailure(ret))

\* C7 witness: on a bound engine the chain call of ask has just failed.
C7_Witness ==
    /\ ret.op = "ask"
    /\ ret.bound
    /\ ret.chain_called
    /\ ret.chain.raised
    /\ ret.result.value.answer = "Error processing question: boom"

\* C8: when the chain call of ask returns, ask returns error = False, the
\* answer is the chain's result, and the sources are the citation block of
\* exactly the passages the chain returned; one passage of d/a with page 1
\* gives the block with the single line "Page 2 (a)".
C8_AskReturnsChainResult ==
    (ret.op = "ask" /\ ret.chain_called /\ ~ret.chain.raised) =>
        LET response == ret.chain.value
            docs == IF "source_documents" \in DOMAIN response
                    THEN response.source_documents ELSE <<>>
        IN  /\ ~ret.result.raised
            /\ ret.result.value.error = FALSE
            /\ "result" \in DOMAIN response => ret.result.value.answer = response.result
            /\ ret.result.value.sources = PyStr(_format_sources(docs).text)
            /\ docs = <<[page_content |-> <<"x">>,
                 metadata |-> [source |-> <<"d", "/", "a">>, page |-> 1]]>> =>
                   ret.result.value.sources =
                       PyStr("\n\n**Sources:**\n\n- **Page 2** (a): _x..._")

\* C8 witness: ask has just returned "This is the answer" with the block of
\* one passage of page 1.
C8_Witness ==
    /\ ret.op = "ask"
    /\ ret.chain_called
    /\ ~ret.chain.raised
    /\ ret.result.value.answer = "This is the answer"
    /\ ret.result.value.sources = PyStr("\n\n**Sources:**\n\n- **Page 2** (a): _x..._")

RECURSIVE HistoryOf(_)
\* the (question, answer) pairs of the asks of a call log that succeeded
\* since its last clear_history, in call order
HistoryOf(calls) ==
    IF calls = <<>> THEN <<>>
    ELSE LET last == calls[Len(calls)]
             before == HistoryOf(SubSeq(calls, 1, Len(calls) - 1))
         IN  IF last.op = "clear_history" THEN <<>>
             ELSE IF last.op = "ask" /\ last.ok THEN Append(before, <<last.query, last.answer>>)
             ELSE before

\* C9: after any sequence of calls the history is exactly the sequence of
\* (question, answer) pairs of the asks that succeeded since the most recent
\* clear_history, in call order; failed asks, blank asks, summarize and
\* setup_chain change nothing.
C9_HistoryIsSuccessfulAsks == get_chat_history = HistoryOf(log)

\* C9 witness: a successful ask, then clear_history, then another successful
\* ask: the history holds the last pair alone.
C9_Witness ==
    /\ Len(log) = 4
    /\ log[2].op = "ask" /\ log[2].ok
    /\ log[3].op = "clear_history"
    /\ log[4].op = "ask" /\ log[4].ok
    /\ chat_history = <<<<log[4].query, log[4].answer>>>>
    /\ log[2].answer # log[4].answer

----------------------------------------------------------------------------
(* Properties of _llm_predict (checked under SpecLlm) *)

\* C10: with an LLM configured, a predict that succeeds is returned as it is
\* and the callable form is not used; otherwise the LLM is called, a mapping
\* result yields the value of the first key present among content, text,
\* output, result in this order, a mapping with none of them yields its
\* string form, and any other result yields its string form.
C10_PredictThenCallable ==
    (out.called /\ llm # NoLLM) =>
        /\ ~arg.predict.raised =>
               (out.outcome = Returns(arg.predict.value) /\ ~out.call_called)
        /\ (arg.predict.raised /\ ~arg.call.raised) =>
               LET v == arg.call.value IN
               /\ out.call_called
               /\ ~out.outcome.raised
               /\ out.outcome.value =
                     IF v.type # "dict" THEN PyStr(StrOf(v))
                     ELSE IF HasKey(v, "content") THEN DictGet(v, "content")
                     ELSE IF HasKey(v, "text") THEN DictGet(v, "text")
                     ELSE IF HasKey(v, "output") THEN DictGet(v, "output")
                     ELSE IF HasKey(v, "result") THEN DictGet(v, "result")
                     ELSE PyStr(StrOf(v))
               /\ v = PyDict(<<[key |-> "output", val |-> PyStr("X")]>>) =>
                     out.outcome.value = PyStr("X")
               /\ v = PyDict(<<[key |-> "other", val |-> PyStr("X")]>>) =>
                     out.outcome.value = PyStr("{'other': 'X'}")
               /\ v = PyInt(7) => out.outcome.value = PyStr("7")

\* C10 witness: predict failed and the callable returned a mapping holding
\* output before content; the value of content was returned.
C10_Witness ==
    /\ out.called
    /\ llm # NoLLM
    /\ arg.predict.raised
    /\ ~arg.call.raised
    /\ arg.call.value =
          PyDict(<<[key |-> "output", val |-> PyStr("X")], [key |-> "content", val |-> PyStr("Y")]>>)
    /\ out.outcome = Returns(PyStr("Y"))

----------------------------------------------------------------------------
(* Properties of the Indexer *)

\* the documents of the files of file_paths that load, file by file
RECURSIVE ExtractedDocs(_, _)
ExtractedDocs(file_paths, i) ==
    IF i = 0 THEN <<>>
    ELSE ExtractedDocs(file_paths, i - 1)
             \o (IF PyPDFLoader(file_paths[i]).raised THEN <<>>
                 ELSE PyPDFLoader(file_paths[i]).value)

YieldsDocument(file_path) ==
    ~PyPDFLoader(file_path).raised /\ PyPDFLoader(file_path).value # <<>>

BuildStoppedEarly ==
    /\ build.split_calls = <<>>
    /\ build.embed_calls = <<>>
    /\ ~build.open_tried
    /\ ~build.deleted
    /\ chroma_db = build.db_before

\* C11: process_files on an empty path list raises the no-files error before
\* any file is loaded; otherwise every file is tried, a file that fails to
\* load is skipped, and what is passed on to the splitter is the documents of
\* the files that loaded, in input order; the no-documents error is raised
\* exactly when no file yields a document; in both error cases nothing is
\* split or embedded and the persist directory is left as it was.
C11_ProcessFilesErrors ==
    build.op = "process_files" =>
        /\ build.file_paths = <<>> =>
               /\ build.result = Raises("ValueError", NoFilesMsg)
               /\ build.loader_calls = <<>>
               /\ BuildStoppedEarly
        /\ build.file_paths # <<>> =>
               /\ build.loader_calls = build.file_paths
               /\ build.result # Raises("ValueError", NoFilesMsg)
               /\ build.split_calls \in
                      {<<>>, <<ExtractedDocs(build.file_paths, Len(build.file_paths))>>}
               /\ build.result = Raises("ValueError", NoDocumentsMsg)
                      <=> \A i \in 1..Len(build.file_paths) :
                              ~YieldsDocument(build.file_paths[i])
               /\ build.result = Raises("ValueError", NoDocumentsMsg) => BuildStoppedEarly
               /\ build.result # Raises("ValueError", NoDocumentsMsg) =>
                      build.split_calls # <<>>

\* a batch whose first file cannot be read and whose second one is indexed,
\* over a persist directory left by an earlier call
C11_Witness ==
    /\ build.op = "process_files"
    /\ build.file_paths = <<"bad.pdf", "a.pdf">>
    /\ build.db_before.exists
    /\ ~build.result.raised
    /\ build.split_calls = <<PyPDFLoader("a.pdf").value>>

\* the call got as far as pdf-qa-bot's create_vectorstore with embeddings set
ReachedCreate ==
    /\ doc_processor.variant = "pdf-qa-bot"
    /\ doc_processor.embeddings
    /\ \/ build.op = "create_vectorstore"
       \/ build.op = "process_files" /\ build.split_calls # <<>>

\* C12 as stated: in the reuse variant, a build that finds a persisted index
\* and is not forced to recreate it reuses it and skips extraction, splitting
\* and embedding altogether.
C12_ReuseSkipsWholePipeline ==
    (doc_processor.variant = "pdf-qa-bot" /\ build.op = "process_files" /\ build.reused) =>
        /\ build.loader_calls = <<>>
        /\ build.split_calls = <<>>
        /\ build.embed_calls = <<>>

\* C12: in the reuse variant with embeddings configured, create_vectorstore
\* opens an existing persist directory when recreation is not forced and, if
\* that works, returns it without embedding or deleting anything; only if
\* opening fails, or recreation is forced, is the directory deleted and the
\* index rebuilt; every rebuild embeds the chunk batch exactly once, after
\* the deletion.  process_files loads and splits the files before
\* create_vectorstore even when the index is then reused, and never forces.
C12_ReuseSkipsEmbeddingOnly ==
    /\ build.op = "process_files" =>
           /\ ~build.force_recreate
           /\ build.loader_calls = build.file_paths
           /\ build.reused =>
                  build.split_calls = <<load_pdfs(build.file_paths)>>
    /\ ReachedCreate =>
           /\ build.open_tried <=> (build.db_before.exists /\ ~build.force_recreate)
           /\ build.reused => build.open_tried
           /\ build.reused =>
                  /\ build.embed_calls = <<>>
                  /\ ~build.deleted
                  /\ chroma_db = build.db_before
                  /\ build.result = Returns(IndexName(build.db_before.chunks))
           /\ ~build.reused =>
                  /\ build.deleted <=> build.db_before.exists
                  /\ build.embed_calls = <<split_documents(load_pdfs(build.file_paths))>>
                  /\ ~build.result.raised =>
                         chroma_db = Persisted(build.embed_calls[1])

\* process_files reusing the index an earlier call persisted
C12_Witness ==
    /\ doc_processor.variant = "pdf-qa-bot"
    /\ build.op = "process_files"
    /\ build.db_before.exists
    /\ build.reused
    /\ build.loader_calls # <<>>
----------------------------------------------------------------------------
(* Properties of the web form layer *)

\* the last handler call was an upload that reported success
UploadSucceeded ==
    /\ ui.op = "process_upload"
    /\ ui.result = Returns(UploadSuccess(current_files))

\* C13 as stated: after any sequence of uploads, the index a successful
\* process_files returns, and the engine is then bound to, holds the chunks of
\* the files of that call and none from an earlier call with other files.
C13_IndexHoldsFilesOfThisCall ==
    UploadSucceeded =>
        /\ build.result = Returns(IndexName(split_documents(load_pdfs(current_files))))
        /\ ui_vectorstore = build.result.value
        /\ qa_chain = build.result.value

\* C14 as stated: ChatInterface.vectorstore is set only if the engine is bound,
\* so answer_question always returns a (chat, message) pair and never lets
\* the engine's unbound error out.
C14_VectorstoreOnlyIfBound ==
    /\ ui_vectorstore # NoIndex => qa_chain # NoChain
    /\ ui.op = "answer_question" =>
           /\ ~ui.result.raised
           /\ DOMAIN ui.result.value = {"chat", "message"}
====
